---- MODULE Spec2Model ----
(***************************************************************************)
(* The FLUX command line driver (src/main.c): the progress reporter        *)
(* (cli_step_callback, cli_substep_callback, cli_setup_progress,           *)
(* cli_finish_progress) and main(), from option parsing to exit.           *)
(*                                                                         *)
(* The inference engine, the image codec and libc are collaborators: each  *)
(* call into them is an action whose result (success or failure, the       *)
(* image's size, the wall-clock time) is chosen nondeterministically, and  *)
(* whose arguments are recorded so that properties can speak about them.   *)
(*                                                                         *)
(* Floats are modelled in hundredths (0.75 is 75).  malloc is taken to     *)
(* succeed and to return a non-NULL pointer.                               *)
(***************************************************************************)
EXTENDS Integers, Sequences, FiniteSets, TLC

\* ------------------------------------------------------------------------
\* Program constants
\* ------------------------------------------------------------------------
DEFAULT_WIDTH == 256
DEFAULT_HEIGHT == 256
DEFAULT_STEPS == 4
DEFAULT_STRENGTH == 75
\* FLUX_TEXT_DIM, and sizeof(float)
FLUX_TEXT_DIM == 7680
SizeofFloat == 4

NULL == "NULL"
\* A NULL flux_image pointer.
NoImage == [width |-> 0, height |-> 0]

\* flux_substep_type_t
FLUX_SUBSTEP_DOUBLE_BLOCK == "DOUBLE_BLOCK"
FLUX_SUBSTEP_SINGLE_BLOCK == "SINGLE_BLOCK"
FLUX_SUBSTEP_FINAL_LAYER == "FINAL_LAYER"
SubstepTypes ==
    {FLUX_SUBSTEP_DOUBLE_BLOCK, FLUX_SUBSTEP_SINGLE_BLOCK, FLUX_SUBSTEP_FINAL_LAYER}

\* ------------------------------------------------------------------------
\* Bounds of the model
\* ------------------------------------------------------------------------
\* Progress events of arbitrary kind and order delivered to an armed reporter.
MaxEvents == 4
\* Length of an in-order sweep of single-block events (indices 0..MaxSingle-1).
MaxSingle == 11
\* Largest step number of a step event.
MaxStep == 3
\* Progress events the engine emits during one generation call of main().
MaxGenEvents == 2

\* Inputs of the reporter harness.
StepTotals == {5}
SubstepIndices == {0, 4, 9}
SubstepTotals == {20}

\* Inputs of main(): what the options can parse to.
PathArgs(name) == {NULL, name}
PromptArgs == {NULL, "", "a cat"}
DimArgs == {63, 256, 4097}
StepsArgs == {0, 4, 101}
StrengthArgs == {-1, 75, 101}
SeedArgs == {-1, 0, 5}
ClockValues == {3, 7}
ImageDims == {32, 300}
GenSubstepIndices == {4}
\* What ftell reports for the embeddings file and for the noise file.
EmbFileSizes == {0, 30719, 30720, 92160, 92164}
NoiseFileSizes == {0, 7, 8}
StopArgs == {"none", "h", "V", "unknown"}

Resources ==
    {"ctx", "input", "emb_file", "text_emb", "noise_file", "noise", "output"}

VARIABLES
    pc,                     \* where main() is; "exit" once it returned
    ret,                    \* main()'s return value, -1 while running
    exit_path,              \* which return statement was taken
    opt,                    \* the option variables after the getopt loop
    params,                 \* flux_params params
    actual_seed,            \* int64_t actual_seed, -1 before it is assigned
    input,                  \* flux_image *input: NoImage or its dimensions
    noise,                  \* float *noise: NULL or "buf"
    output,                 \* flux_image *output: NULL or "image"
    cli_current_step,       \* static int cli_current_step
    flux_step_callback,     \* the engine's step callback pointer
    flux_substep_callback,  \* the engine's substep callback pointer
    term,                   \* what the reporter wrote to stderr, in order
    evlog,                  \* the progress events delivered so far
    acq, rel,               \* per resource: times acquired, times released
    engine,                 \* the calls made into the engine, in order
    opened,                 \* the input files main() tried to open
    seed_out,               \* the "Seed: %lld" lines written to stderr
    stdout,                 \* the lines written to standard output
    file_size,              \* long file_size, -1 before ftell
    text_seq,               \* int text_seq
    noise_file_size,        \* long noise_file_size, -1 before ftell
    noise_size,             \* int noise_size
    fread_ret               \* what fread returned per file, -1 before the call

vars ==
    <<pc, ret, exit_path, opt, params, actual_seed, input, noise, output,
      cli_current_step, flux_step_callback, flux_substep_callback, term, evlog,
      acq, rel, engine, opened, seed_out, stdout,
      file_size, text_seq, noise_file_size, noise_size, fread_ret>>

tensors == <<file_size, text_seq, noise_file_size, noise_size, fread_ret>>
reporter == <<cli_current_step, flux_step_callback, flux_substep_callback, term>>
mainvars ==
    <<ret, exit_path, opt, params, actual_seed, input, noise, output,
      acq, rel, engine, opened, seed_out, stdout, tensors>>

\* ------------------------------------------------------------------------
\* stderr as the reporter writes it: one token per fprintf/fputc
\* ------------------------------------------------------------------------
Newline == [k |-> "\n", step |-> 0, total |-> 0]
Header(step, total) == [k |-> "Step %d/%d ", step |-> step, total |-> total]
Marker(c) == [k |-> c, step |-> 0, total |-> 0]

\* A progress event as delivered by the engine.
StepEv(step, total) ==
    [ev |-> "step", type |-> "-", n |-> step, total |-> total]
SubstepEv(type, index, total) ==
    [ev |-> "substep", type |-> type, n |-> index, total |-> total]

\* ------------------------------------------------------------------------
\* CLI progress callbacks
\* ------------------------------------------------------------------------
\* "Print newline to end previous step's progress (if any)"
EndPreviousLine_Always(current) == <<Newline>>
EndPreviousLine(current) == IF current > 0 THEN <<Newline>> ELSE <<>>

cli_step_callback(step, total) ==
    /\ term' = term \o EndPreviousLine(cli_current_step) \o <<Header(step, total)>>
    /\ cli_current_step' = step

SubstepOutput_IndexMod(type, index) ==
    CASE type = FLUX_SUBSTEP_DOUBLE_BLOCK -> <<Marker("d")>>
      [] type = FLUX_SUBSTEP_SINGLE_BLOCK ->
            IF index % 5 = 0 THEN <<Marker("s")>> ELSE <<>>
      [] type = FLUX_SUBSTEP_FINAL_LAYER -> <<Marker("F")>>
      [] OTHER -> <<>>
\* What the switch of cli_substep_callback writes.
SubstepOutput(type, index) ==
    CASE type = FLUX_SUBSTEP_DOUBLE_BLOCK -> <<Marker("d")>>
      [] type = FLUX_SUBSTEP_SINGLE_BLOCK ->
            IF (index + 1) % 5 = 0 THEN <<Marker("s")>> ELSE <<>>
      [] type = FLUX_SUBSTEP_FINAL_LAYER -> <<Marker("F")>>
      [] OTHER -> <<>>

cli_substep_callback(type, index, total) ==
    /\ term' = term \o SubstepOutput(type, index)
    /\ UNCHANGED cli_current_step

cli_setup_progress ==
    /\ cli_current_step' = 0
    /\ flux_step_callback' = "cli_step_callback"
    /\ flux_substep_callback' = "cli_substep_callback"
    /\ UNCHANGED term

cli_finish_progress_KeepCallbacks ==
    /\ IF cli_current_step > 0
          THEN /\ term' = Append(term, Newline)
               /\ cli_current_step' = 0
          ELSE UNCHANGED <<term, cli_current_step>>
    /\ UNCHANGED <<flux_step_callback, flux_substep_callback>>
cli_finish_progress_KeepStep ==
    /\ term' = term \o (IF cli_current_step > 0 THEN <<Newline>> ELSE <<>>)
    /\ UNCHANGED cli_current_step
    /\ flux_step_callback' = NULL
    /\ flux_substep_callback' = NULL
cli_finish_progress ==
    /\ IF cli_current_step > 0
          THEN /\ term' = Append(term, Newline)
               /\ cli_current_step' = 0
          ELSE UNCHANGED <<term, cli_current_step>>
    /\ flux_step_callback' = NULL
    /\ flux_substep_callback' = NULL

\* ------------------------------------------------------------------------
\* The engine delivering progress events: it calls a callback pointer only
\* when it is set.
\* ------------------------------------------------------------------------
DeliverStep(step, total) ==
    /\ evlog' = Append(evlog, StepEv(step, total))
    /\ IF flux_step_callback = "cli_step_callback"
          THEN cli_step_callback(step, total)
          ELSE UNCHANGED <<term, cli_current_step>>
    /\ UNCHANGED <<flux_step_callback, flux_substep_callback>>

DeliverSubstep(type, index, total) ==
    /\ evlog' = Append(evlog, SubstepEv(type, index, total))
    /\ IF flux_substep_callback = "cli_substep_callback"
          THEN cli_substep_callback(type, index, total)
          ELSE UNCHANGED <<term, cli_current_step>>
    /\ UNCHANGED <<flux_step_callback, flux_substep_callback>>

\* ------------------------------------------------------------------------
\* State after static initialisation
\* ------------------------------------------------------------------------
NoOptions ==
    [model_dir |-> NULL, prompt |-> NULL, output_path |-> NULL,
     input_path |-> NULL, embeddings_path |-> NULL, noise_path |-> NULL,
     width |-> DEFAULT_WIDTH, height |-> DEFAULT_HEIGHT,
     num_steps |-> DEFAULT_STEPS, seed |-> -1, strength |-> DEFAULT_STRENGTH,
     verbose |-> FALSE, width_set |-> FALSE, height_set |-> FALSE,
     stop |-> "none"]

ParamsOf(o) ==
    [width |-> o.width, height |-> o.height, num_steps |-> o.num_steps,
     seed |-> o.seed, strength |-> o.strength]

Init ==
    /\ pc = "start"
    /\ ret = -1
    /\ exit_path = "none"
    /\ opt = NoOptions
    /\ params = ParamsOf(NoOptions)
    /\ actual_seed = -1
    /\ input = NoImage
    /\ noise = NULL
    /\ output = NULL
    /\ cli_current_step = 0
    /\ flux_step_callback = NULL
    /\ flux_substep_callback = NULL
    /\ term = <<>>
    /\ evlog = <<>>
    /\ acq = [r \in Resources |-> 0]
    /\ rel = [r \in Resources |-> 0]
    /\ engine = <<>>
    /\ opened = {}
    /\ seed_out = <<>>
    /\ stdout = <<>>
    /\ file_size = -1
    /\ text_seq = 0
    /\ noise_file_size = -1
    /\ noise_size = 0
    /\ fread_ret = [emb |-> -1, noise |-> -1]

\* ------------------------------------------------------------------------
\* The reporter on its own: armed, fed events, disarmed
\* ------------------------------------------------------------------------
InitReporter ==
    /\ Init

\* TRUE iff log is exactly the single-block events of indices 0..Len(log)-1.
IsSingleSweep(log) ==
    \A i \in 1..Len(log) :
        /\ log[i].ev = "substep"
        /\ log[i].type = FLUX_SUBSTEP_SINGLE_BLOCK
        /\ log[i].n = i - 1

Arm ==
    /\ pc = "start"
    /\ pc' = "armed"
    /\ cli_setup_progress
    /\ UNCHANGED <<evlog, mainvars>>

StepEvent(step, total) ==
    /\ pc = "armed"
    /\ Len(evlog) < MaxEvents
    /\ DeliverStep(step, total)
    /\ UNCHANGED <<pc, mainvars>>

SubstepEvent(type, index, total) ==
    /\ pc = "armed"
    /\ Len(evlog) < MaxEvents
    /\ DeliverSubstep(type, index, total)
    /\ UNCHANGED <<pc, mainvars>>

\* The next event of a sweep over the single blocks, in index order.
SweepEvent ==
    /\ pc = "armed"
    /\ IsSingleSweep(evlog)
    /\ Len(evlog) < MaxSingle
    /\ \E total \in SubstepTotals :
          DeliverSubstep(FLUX_SUBSTEP_SINGLE_BLOCK, Len(evlog), total)
    /\ UNCHANGED <<pc, mainvars>>

Disarm ==
    /\ pc = "armed"
    /\ pc' = "disarmed"
    /\ cli_finish_progress
    /\ UNCHANGED <<evlog, mainvars>>

NextReporter ==
    \/ Arm
    \/ \E step \in 1..MaxStep, total \in StepTotals : StepEvent(step, total)
    \/ \E type \in SubstepTypes, index \in SubstepIndices, total \in SubstepTotals :
          SubstepEvent(type, index, total)
    \/ SweepEvent
    \/ Disarm

SpecReporter == InitReporter /\ [][NextReporter]_vars

\* ------------------------------------------------------------------------
\* main(): helpers
\* ------------------------------------------------------------------------
NoParams == [width |-> 0, height |-> 0, num_steps |-> 0, seed |-> 0, strength |-> 0]

\* One call into the engine facade, with the arguments properties speak about:
\* str is the call's string argument (the prompt, or a path).
EngineCall(fn, str, p, withNoise) ==
    [fn |-> fn, str |-> str, params |-> p, noise |-> withNoise,
     text_seq |-> 0, noise_size |-> 0]

\* A generation call with external embeddings: the sequence length and the
\* noise count it is given.
EmbeddingsCall(fn, p, withNoise, seq, n) ==
    [EngineCall(fn, NULL, p, withNoise) EXCEPT !.text_seq = seq, !.noise_size = n]

\* Variant: the sequence length rounded up to cover a trailing partial row.
TextSeq_RoundUp(size) ==
    (size + FLUX_TEXT_DIM * SizeofFloat - 1) \div (FLUX_TEXT_DIM * SizeofFloat)
\* int text_seq = file_size / (text_dim * sizeof(float))
TextSeq(size) == size \div (FLUX_TEXT_DIM * SizeofFloat)
\* noise_size = noise_file_size / sizeof(float)
NoiseSize(size) == size \div SizeofFloat

\* Variant: the return value of fread is not looked at.
ReadFailed_Never(n, size) == FALSE
\* fread(buf, 1, size, f) != (size_t)size
ReadFailed(n, size) == n # size
\* What fread returns: the whole file, or fewer bytes.
BytesRead(ok, size) == IF ok THEN size ELSE size - 1

GenerationEntryPoints ==
    {"flux_generate", "flux_generate_with_embeddings",
     "flux_generate_with_embeddings_and_noise", "flux_img2img"}

Acquire(f, r) == [f EXCEPT ![r] = @ + 1]
Release(f, rs) == [r \in Resources |-> IF r \in rs THEN f[r] + 1 ELSE f[r]]

\* return <code>; from main()
Return(path, code) ==
    /\ pc' = "exit"
    /\ exit_path' = path
    /\ ret' = code

\* "Validate required arguments" and "Validate parameters": the first failing
\* check, or "ok".
ValidationError_NoOutputCheck(o, p) ==
    IF o.model_dir = NULL THEN "no_model"
    ELSE IF o.prompt = NULL /\ o.embeddings_path = NULL THEN "no_prompt"
    ELSE IF p.width < 64 \/ p.width > 4096 THEN "width"
    ELSE IF p.height < 64 \/ p.height > 4096 THEN "height"
    ELSE IF p.num_steps < 1 \/ p.num_steps > 100 THEN "steps"
    ELSE IF p.strength < 0 \/ p.strength > 100 THEN "strength"
    ELSE "ok"
ValidationError(o, p) ==
    IF o.model_dir = NULL THEN "no_model"
    ELSE IF o.prompt = NULL /\ o.embeddings_path = NULL THEN "no_prompt"
    ELSE IF o.output_path = NULL THEN "no_output"
    ELSE IF p.width < 64 \/ p.width > 4096 THEN "width"
    ELSE IF p.height < 64 \/ p.height > 4096 THEN "height"
    ELSE IF p.num_steps < 1 \/ p.num_steps > 100 THEN "steps"
    ELSE IF p.strength < 0 \/ p.strength > 100 THEN "strength"
    ELSE "ok"

\* "Set seed - if random, capture the actual seed used for reproducibility"
ResolveSeedValue_Positive(seed, now) == IF seed > 0 THEN seed ELSE now
ResolveSeedValue(seed, now) == IF seed >= 0 THEN seed ELSE now

\* "Always print the seed so runs can be reproduced"
SeedReport_VerboseOnly(out, verbose, seed) ==
    IF verbose THEN Append(out, seed) ELSE out
SeedReport(out, verbose, seed) == Append(out, seed)

\* if (verbose) "Done!" on stderr, else the output path on stdout.
ReportOutputPath_Always(out, verbose, path) == Append(out, path)
ReportOutputPath(out, verbose, path) ==
    IF verbose THEN out ELSE Append(out, path)

\* The if / else if / else around the generation calls.
SelectMode_EmbeddingsFirst(o) ==
    IF o.embeddings_path # NULL THEN "embeddings"
    ELSE IF o.input_path # NULL THEN "img2img"
    ELSE "prompt"
SelectMode(o) ==
    IF o.input_path # NULL THEN "img2img"
    ELSE IF o.embeddings_path # NULL THEN "embeddings"
    ELSE "prompt"

\* "Use input image dimensions if not explicitly set"
OverrideDim_ByDefaultValue(is_set, requested, image_dim) ==
    IF requested = DEFAULT_WIDTH THEN image_dim ELSE requested
OverrideDim(is_set, requested, image_dim) ==
    IF ~is_set THEN image_dim ELSE requested

\* ------------------------------------------------------------------------
\* main(): one action per stretch of code between two collaborator calls
\* ------------------------------------------------------------------------
\* The getopt_long loop.  stop is the option that ends the loop early, if any:
\* -h, -V, or one getopt does not know.
ParseArgs ==
    /\ UNCHANGED tensors
    /\ pc = "start"
    /\ \E model_dir \in PathArgs("model/"), prompt \in PromptArgs,
          output_path \in PathArgs("out.png"), input_path \in PathArgs("in.png"),
          embeddings_path \in PathArgs("emb.bin"), noise_path \in PathArgs("noise.bin"),
          width_set \in BOOLEAN, W \in DimArgs, height_set \in BOOLEAN, H \in DimArgs,
          s \in StepsArgs, S \in SeedArgs, t \in StrengthArgs,
          verbose \in BOOLEAN, stop \in StopArgs :
          LET o == [model_dir |-> model_dir, prompt |-> prompt,
                    output_path |-> output_path, input_path |-> input_path,
                    embeddings_path |-> embeddings_path, noise_path |-> noise_path,
                    width |-> IF width_set THEN W ELSE DEFAULT_WIDTH,
                    height |-> IF height_set THEN H ELSE DEFAULT_HEIGHT,
                    num_steps |-> s, seed |-> S, strength |-> t,
                    verbose |-> verbose, width_set |-> width_set,
                    height_set |-> height_set, stop |-> stop]
          IN /\ opt' = o
             /\ params' = ParamsOf(o)
             /\ CASE stop = "h" -> Return("help", 0)
                  [] stop = "V" -> Return("version", 0)
                  [] stop = "unknown" -> Return("usage", 1)
                  [] OTHER -> pc' = "validate" /\ UNCHANGED <<ret, exit_path>>
    /\ UNCHANGED <<actual_seed, input, noise, output, reporter, evlog,
                   acq, rel, engine, opened, seed_out, stdout>>

Validate ==
    /\ UNCHANGED tensors
    /\ pc = "validate"
    /\ LET e == ValidationError(opt, params)
       IN IF e = "ok"
             THEN pc' = "load" /\ UNCHANGED <<ret, exit_path>>
             ELSE Return(e, 1)
    /\ UNCHANGED <<opt, params, actual_seed, input, noise, output, reporter, evlog,
                   acq, rel, engine, opened, seed_out, stdout>>

\* flux_load_dir, and in verbose mode cli_setup_progress.
LoadModel(ok) ==
    /\ UNCHANGED tensors
    /\ pc = "load"
    /\ engine' = Append(engine, EngineCall("flux_load_dir", opt.model_dir, NoParams, FALSE))
    /\ IF ok
          THEN /\ acq' = Acquire(acq, "ctx")
               /\ pc' = "seed"
               /\ UNCHANGED <<ret, exit_path>>
               /\ IF opt.verbose THEN cli_setup_progress ELSE UNCHANGED reporter
          ELSE /\ Return("load", 1)
               /\ UNCHANGED <<acq, reporter>>
    /\ UNCHANGED <<opt, params, actual_seed, input, noise, output, evlog,
                   rel, opened, seed_out, stdout>>

\* now is what time(NULL) returns.
ResolveSeed(now) ==
    /\ UNCHANGED tensors
    /\ pc = "seed"
    /\ LET seed == ResolveSeedValue(params.seed, now)
       IN /\ actual_seed' = seed
          /\ engine' = Append(engine,
                EngineCall("flux_set_seed", NULL, [NoParams EXCEPT !.seed = seed], FALSE))
          /\ seed_out' = SeedReport(seed_out, opt.verbose, seed)
    /\ pc' = "select"
    /\ UNCHANGED <<ret, exit_path, opt, params, input, noise, output, reporter, evlog,
                   acq, rel, opened, stdout>>

\* Image-to-image mode, up to the generation call: flux_image_load and the
\* override of the requested size.
LoadInputImage(ok, w, h) ==
    /\ UNCHANGED tensors
    /\ pc = "select"
    /\ SelectMode(opt) = "img2img"
    /\ opened' = opened \cup {opt.input_path}
    /\ IF ok
          THEN /\ input' = [width |-> w, height |-> h]
               /\ acq' = Acquire(acq, "input")
               /\ params' = [params EXCEPT
                      !.width = OverrideDim(opt.width_set, params.width, w),
                      !.height = OverrideDim(opt.height_set, params.height, h)]
               /\ pc' = "img2img"
               /\ UNCHANGED <<ret, exit_path, rel>>
          ELSE /\ rel' = Release(rel, {"ctx"})
               /\ Return("input", 1)
               /\ UNCHANGED <<input, acq, params>>
    /\ UNCHANGED <<opt, actual_seed, noise, output, reporter, evlog,
                   engine, seed_out, stdout>>

CallImg2Img ==
    /\ UNCHANGED tensors
    /\ pc = "img2img"
    /\ engine' = Append(engine, EngineCall("flux_img2img", opt.prompt, params, FALSE))
    /\ pc' = "in_engine"
    /\ UNCHANGED <<ret, exit_path, opt, params, actual_seed, input, noise, output,
                   reporter, evlog, acq, rel, opened, seed_out, stdout>>

\* External embeddings mode: fopen(embeddings_path).
OpenEmbeddings(ok) ==
    /\ UNCHANGED tensors
    /\ pc = "select"
    /\ SelectMode(opt) = "embeddings"
    /\ opened' = opened \cup {opt.embeddings_path}
    /\ IF ok
          THEN /\ acq' = Acquire(acq, "emb_file")
               /\ pc' = "emb_read"
               /\ UNCHANGED <<ret, exit_path, rel>>
          ELSE /\ rel' = Release(rel, {"ctx"})
               /\ Return("emb_open", 1)
               /\ UNCHANGED acq
    /\ UNCHANGED <<opt, params, actual_seed, input, noise, output, reporter, evlog,
                   engine, seed_out, stdout>>

\* malloc(file_size) and fread; ok iff fread returned file_size.
ReadEmbeddings(ok) ==
    /\ pc = "emb_read"
    /\ \E size \in EmbFileSizes :
          /\ ok \/ size > 0
          /\ file_size' = size
          /\ text_seq' = TextSeq(size)
          /\ fread_ret' = [fread_ret EXCEPT !.emb = BytesRead(ok, size)]
    /\ UNCHANGED <<noise_file_size, noise_size>>
    /\ acq' = Acquire(acq, "text_emb")
    /\ IF ~ReadFailed(fread_ret'.emb, file_size')
          THEN /\ rel' = Release(rel, {"emb_file"})
               /\ pc' = IF opt.noise_path # NULL THEN "noise_open" ELSE "emb_call"
               /\ UNCHANGED <<ret, exit_path>>
          ELSE /\ rel' = Release(rel, {"text_emb", "emb_file", "ctx"})
               /\ Return("emb_read", 1)
    /\ UNCHANGED <<opt, params, actual_seed, input, noise, output, reporter, evlog,
                   engine, opened, seed_out, stdout>>

\* "Load noise if provided": fopen(noise_path).
OpenNoise(ok) ==
    /\ UNCHANGED tensors
    /\ pc = "noise_open"
    /\ opened' = opened \cup {opt.noise_path}
    /\ IF ok
          THEN /\ acq' = Acquire(acq, "noise_file")
               /\ pc' = "noise_read"
               /\ UNCHANGED <<ret, exit_path, rel>>
          ELSE /\ rel' = Release(rel, {"text_emb", "ctx"})
               /\ Return("noise_open", 1)
               /\ UNCHANGED acq
    /\ UNCHANGED <<opt, params, actual_seed, input, noise, output, reporter, evlog,
                   engine, seed_out, stdout>>

ReadNoise(ok) ==
    /\ pc = "noise_read"
    /\ \E size \in NoiseFileSizes :
          /\ ok \/ size > 0
          /\ noise_file_size' = size
          /\ noise_size' = NoiseSize(size)
          /\ fread_ret' = [fread_ret EXCEPT !.noise = BytesRead(ok, size)]
    /\ UNCHANGED <<file_size, text_seq>>
    /\ acq' = Acquire(acq, "noise")
    /\ IF ~ReadFailed(fread_ret'.noise, noise_file_size')
          THEN /\ noise' = "buf"
               /\ rel' = Release(rel, {"noise_file"})
               /\ pc' = "emb_call"
               /\ UNCHANGED <<ret, exit_path>>
          ELSE /\ rel' = Release(rel, {"noise", "text_emb", "noise_file", "ctx"})
               /\ Return("noise_read", 1)
               /\ UNCHANGED noise
    /\ UNCHANGED <<opt, params, actual_seed, input, output, reporter, evlog,
                   engine, opened, seed_out, stdout>>

\* if (noise) flux_generate_with_embeddings_and_noise(...) else
\* flux_generate_with_embeddings(...)
CallWithEmbeddings ==
    /\ UNCHANGED tensors
    /\ pc = "emb_call"
    /\ engine' = Append(engine,
          IF noise # NULL
             THEN EmbeddingsCall("flux_generate_with_embeddings_and_noise", params, TRUE,
                                 text_seq, noise_size)
             ELSE EmbeddingsCall("flux_generate_with_embeddings", params, FALSE,
                                 text_seq, 0))
    /\ pc' = "in_engine"
    /\ UNCHANGED <<ret, exit_path, opt, params, actual_seed, input, noise, output,
                   reporter, evlog, acq, rel, opened, seed_out, stdout>>

\* Text-to-image mode with the internal text encoder.
CallGenerate ==
    /\ UNCHANGED tensors
    /\ pc = "select"
    /\ SelectMode(opt) = "prompt"
    /\ engine' = Append(engine, EngineCall("flux_generate", opt.prompt, params, FALSE))
    /\ pc' = "in_engine"
    /\ UNCHANGED <<ret, exit_path, opt, params, actual_seed, input, noise, output,
                   reporter, evlog, acq, rel, opened, seed_out, stdout>>

\* The engine, inside the generation call: the start of the next sampling step.
EngineStep ==
    /\ pc = "in_engine"
    /\ Len(evlog) < MaxGenEvents
    /\ DeliverStep(Cardinality({i \in 1..Len(evlog) : evlog[i].ev = "step"}) + 1,
                   params.num_steps)
    /\ UNCHANGED <<pc, mainvars>>

\* The engine, inside the generation call: one block of the forward pass of
\* the sampling step that has started.
EngineSubstep(type, index, total) ==
    /\ pc = "in_engine"
    /\ Len(evlog) < MaxGenEvents
    /\ \E i \in 1..Len(evlog) : evlog[i].ev = "step"
    /\ DeliverSubstep(type, index, total)
    /\ UNCHANGED <<pc, mainvars>>

\* The engine emitting a progress event after the generation call returned
\* and the progress display was finished.
EngineLateStep ==
    /\ pc = "save"
    /\ Len(evlog) < MaxGenEvents
    /\ DeliverStep(Cardinality({i \in 1..Len(evlog) : evlog[i].ev = "step"}) + 1,
                   params.num_steps)
    /\ UNCHANGED <<pc, mainvars>>

EngineLateSubstep(type, index, total) ==
    /\ pc = "save"
    /\ Len(evlog) < MaxGenEvents
    /\ DeliverSubstep(type, index, total)
    /\ UNCHANGED <<pc, mainvars>>

\* What the call site frees once the generation call has returned.
FreedAfterCall_Nothing(fn) == {}
FreedAfterCall(fn) ==
    CASE fn = "flux_img2img" -> {"input"}
      [] fn = "flux_generate_with_embeddings_and_noise" -> {"noise", "text_emb"}
      [] fn = "flux_generate_with_embeddings" -> {"text_emb"}
      [] OTHER -> {}

\* The generation call returns an image or NULL.
EngineReturn(ok) ==
    /\ UNCHANGED tensors
    /\ pc = "in_engine"
    /\ output' = IF ok THEN "image" ELSE NULL
    /\ acq' = IF ok THEN Acquire(acq, "output") ELSE acq
    /\ rel' = Release(rel, FreedAfterCall(engine[Len(engine)].fn))
    /\ pc' = "finish"
    /\ UNCHANGED <<ret, exit_path, opt, params, actual_seed, input, noise,
                   reporter, evlog, engine, opened, seed_out, stdout>>

\* "Finish progress display" and the check of the result.
FinishGeneration ==
    /\ UNCHANGED tensors
    /\ pc = "finish"
    /\ IF opt.verbose THEN cli_finish_progress ELSE UNCHANGED reporter
    /\ IF output = NULL
          THEN /\ rel' = Release(rel, {"ctx"})
               /\ Return("generation", 1)
          ELSE /\ pc' = "save"
               /\ UNCHANGED <<ret, exit_path, rel>>
    /\ UNCHANGED <<opt, params, actual_seed, input, noise, output, evlog,
                   acq, engine, opened, seed_out, stdout>>

\* flux_image_save, the report of the output path, and the cleanup.
SaveImage(ok) ==
    /\ UNCHANGED tensors
    /\ pc = "save"
    /\ engine' = Append(engine, EngineCall("flux_image_save", opt.output_path, NoParams, FALSE))
    /\ rel' = Release(rel, {"output", "ctx"})
    /\ IF ok
          THEN /\ stdout' = ReportOutputPath(stdout, opt.verbose, opt.output_path)
               /\ Return("success", 0)
          ELSE /\ Return("save", 1)
               /\ UNCHANGED stdout
    /\ UNCHANGED <<opt, params, actual_seed, input, noise, output, reporter, evlog,
                   acq, opened, seed_out>>

Next ==
    \/ ParseArgs
    \/ Validate
    \/ \E ok \in BOOLEAN : LoadModel(ok)
    \/ \E now \in ClockValues : ResolveSeed(now)
    \/ \E ok \in BOOLEAN, w \in ImageDims, h \in ImageDims : LoadInputImage(ok, w, h)
    \/ CallImg2Img
    \/ \E ok \in BOOLEAN : OpenEmbeddings(ok)
    \/ \E ok \in BOOLEAN : ReadEmbeddings(ok)
    \/ \E ok \in BOOLEAN : OpenNoise(ok)
    \/ \E ok \in BOOLEAN : ReadNoise(ok)
    \/ CallWithEmbeddings
    \/ CallGenerate
    \/ EngineStep
    \/ \E type \in SubstepTypes, index \in GenSubstepIndices, total \in SubstepTotals :
          EngineSubstep(type, index, total)
    \/ \E ok \in BOOLEAN : EngineReturn(ok)
    \/ EngineLateStep
    \/ \E type \in SubstepTypes, index \in GenSubstepIndices, total \in SubstepTotals :
          EngineLateSubstep(type, index, total)
    \/ FinishGeneration
    \/ \E ok \in BOOLEAN : SaveImage(ok)

Spec == Init /\ [][Next]_vars

\* ========================================================================
\* Properties
\* ========================================================================
\* Number of tokens of kind k in the reporter's output.
Count(seq, k) == Cardinality({i \in 1..Len(seq) : seq[i].k = k})

\* TRUE iff log is exactly the step events of steps 1..Len(log), Len(log) >= 1.
IsStepRun(log) ==
    /\ Len(log) >= 1
    /\ \A i \in 1..Len(log) : log[i].ev = "step" /\ log[i].n = i

Exited == pc = "exit"

\* ------------------------------------------------------------------------
\* C1: an armed reporter that received the step events 1..n (n >= 1) in
\* order and no substep event has written the n step headers with exactly one
\* line break before each header but the first (n-1 in all); disarming adds
\* exactly one more, so n lines are rendered in total.
\* ------------------------------------------------------------------------
C1_StepLines ==
    (pc \in {"armed", "disarmed"} /\ IsStepRun(evlog)) =>
        LET n == Len(evlog)
        IN /\ Len(term) = IF pc = "disarmed" THEN 2 * n ELSE 2 * n - 1
           /\ \A i \in 1..n : term[2 * i - 1] = Header(i, evlog[i].total)
           /\ \A i \in 1..(n - 1) : term[2 * i] = Newline
           /\ pc = "disarmed" => term[2 * n] = Newline
           /\ Count(term, "\n") = IF pc = "disarmed" THEN n ELSE n - 1

C1_Witness ==
    /\ pc = "disarmed"
    /\ evlog = <<StepEv(1, 5), StepEv(2, 5), StepEv(3, 5)>>
    /\ Count(term, "\n") = 3

\* ------------------------------------------------------------------------
\* C2: after cli_finish_progress, whatever events were delivered while the
\* reporter was armed, cli_current_step is 0 and the reporter's output is
\* empty or ends with a line break.
\* ------------------------------------------------------------------------
C2_NeverMidLine ==
    pc = "disarmed" =>
        /\ cli_current_step = 0
        /\ term = <<>> \/ term[Len(term)] = Newline

\* ------------------------------------------------------------------------
\* C3: a substep event appends to the reporter's output and writes no line
\* break and leaves cli_current_step alone; a double-block or final-layer
\* event writes exactly one marker, a single-block event of index i writes
\* one marker if (i + 1) mod 5 = 0 and nothing otherwise; so a sweep over the
\* single blocks 0..N-1 writes floor(N / 5) markers, after the events of
\* indices 4, 9, ...
\* ------------------------------------------------------------------------
C3_PerEvent ==
    (Len(evlog') = Len(evlog) + 1 /\ evlog'[Len(evlog')].ev = "substep") =>
        LET e == evlog'[Len(evlog')]
            written == Len(term') - Len(term)
        IN /\ SubSeq(term', 1, Len(term)) = term
           /\ cli_current_step' = cli_current_step
           /\ Count(term', "\n") = Count(term, "\n")
           /\ Count(term', "Step %d/%d ") = Count(term, "Step %d/%d ")
           /\ e.type \in {FLUX_SUBSTEP_DOUBLE_BLOCK, FLUX_SUBSTEP_FINAL_LAYER} =>
                 written = 1
           /\ e.type = FLUX_SUBSTEP_SINGLE_BLOCK =>
                 written = IF (e.n + 1) % 5 = 0 THEN 1 ELSE 0

C3_Sweep ==
    (pc = "armed" /\ IsSingleSweep(evlog)) =>
        /\ Len(term) = Len(evlog) \div 5
        /\ Count(term, "s") = Len(evlog) \div 5

C3_SubstepPolicy == [][C3_PerEvent]_vars /\ []C3_Sweep

C3_Witness ==
    /\ pc = "armed"
    /\ IsSingleSweep(evlog)
    /\ Len(evlog) = 10
    /\ term = <<Marker("s"), Marker("s")>>

\* Helpers for the properties of main().
GenerationCalls == {i \in 1..Len(engine) : engine[i].fn \in GenerationEntryPoints}
CallsOf(fn) == {i \in 1..Len(engine) : engine[i].fn = fn}

\* main() is past the assignment of actual_seed.
PastSeed ==
    \/ pc \in {"select", "img2img", "emb_read", "noise_open", "noise_read",
               "emb_call", "in_engine", "finish", "save"}
    \/ /\ Exited
       /\ exit_path \in {"input", "emb_open", "emb_read", "noise_open",
                         "noise_read", "generation", "save", "success"}

\* ------------------------------------------------------------------------
\* C4: a verbose run whose generation call returned NULL exits with status
\* 1, with the reporter disarmed (both callbacks NULL, cli_current_step 0,
\* the reporter's output empty or ended by a line break), the model context
\* released exactly once, and flux_image_save never called.
\* ------------------------------------------------------------------------
C4_FailureCleanup ==
    (Exited /\ opt.verbose /\ exit_path = "generation") =>
        /\ ret = 1
        /\ flux_step_callback = NULL
        /\ flux_substep_callback = NULL
        /\ cli_current_step = 0
        /\ term = <<>> \/ term[Len(term)] = Newline
        /\ acq["ctx"] = 1
        /\ rel["ctx"] = 1
        /\ CallsOf("flux_image_save") = {}

C4_Witness ==
    /\ Exited
    /\ opt.verbose
    /\ exit_path = "generation"
    /\ evlog = <<StepEv(1, DEFAULT_STEPS), SubstepEv(FLUX_SUBSTEP_DOUBLE_BLOCK, 4, 20)>>
    /\ term = <<Header(1, DEFAULT_STEPS), Marker("d"), Newline>>
    /\ ret = 1

\* ------------------------------------------------------------------------
\* C5: no resource is ever released more often than it was acquired, and
\* when main() returns after a successful model load every resource acquired
\* during the run (model context, input image, embeddings file and buffer,
\* noise file and buffer, generated image) has been released exactly once.
\* ------------------------------------------------------------------------
C5_ResourceLifecycle ==
    /\ \A r \in Resources : rel[r] <= acq[r] /\ acq[r] <= 1
    /\ (Exited /\ acq["ctx"] = 1) => \A r \in Resources : rel[r] = acq[r]

C5_Witness ==
    /\ Exited
    /\ exit_path = "noise_read"
    /\ \A r \in {"ctx", "emb_file", "text_emb", "noise_file", "noise"} :
          acq[r] = 1 /\ rel[r] = 1

\* ------------------------------------------------------------------------
\* C6: a run with a required argument missing or a parameter out of range
\* never loads a model, arms the reporter, resolves a seed, opens an input
\* file or calls a generation entry point.
\* ------------------------------------------------------------------------
InvalidArguments(o) ==
    \/ o.model_dir = NULL
    \/ o.prompt = NULL /\ o.embeddings_path = NULL
    \/ o.output_path = NULL
    \/ o.width \notin 64..4096
    \/ o.height \notin 64..4096
    \/ o.num_steps \notin 1..100
    \/ o.strength \notin 0..100

NothingAttempted ==
    /\ engine = <<>>
    /\ opened = {}
    /\ seed_out = <<>>
    /\ actual_seed = -1
    /\ flux_step_callback = NULL
    /\ flux_substep_callback = NULL
    /\ \A r \in Resources : acq[r] = 0

\* C6 as stated: such a run always exits with status 1.
C6_FailFast_Original ==
    (pc # "start" /\ InvalidArguments(opt)) =>
        /\ pc \in {"validate", "exit"}
        /\ NothingAttempted
        /\ Exited => ret = 1

\* C6 as amended: it exits with status 1 unless -h or -V ended the option
\* loop, in which case it exits with status 0.
C6_FailFast ==
    (pc # "start" /\ InvalidArguments(opt)) =>
        /\ pc \in {"validate", "exit"}
        /\ NothingAttempted
        /\ Exited => ret = IF opt.stop \in {"h", "V"} THEN 0 ELSE 1

C6_Witness ==
    /\ Exited
    /\ opt.stop = "none"
    /\ opt.model_dir # NULL
    /\ opt.prompt # NULL
    /\ opt.output_path = NULL
    /\ exit_path = "no_output"
    /\ ret = 1

\* ------------------------------------------------------------------------
\* C7: at most one generation entry point is ever called, exactly one in a
\* run that got to the generation call, and it is flux_img2img if an input
\* image path was given (then no embeddings or noise file is opened), else
\* flux_generate_with_embeddings_and_noise if embeddings and noise paths
\* were given, else flux_generate_with_embeddings if an embeddings path was
\* given, else flux_generate.
\* ------------------------------------------------------------------------
ExpectedEntryPoint(o) ==
    IF o.input_path # NULL THEN "flux_img2img"
    ELSE IF o.embeddings_path # NULL /\ o.noise_path # NULL
            THEN "flux_generate_with_embeddings_and_noise"
    ELSE IF o.embeddings_path # NULL THEN "flux_generate_with_embeddings"
    ELSE "flux_generate"

C7_ModeSelection ==
    /\ Cardinality(GenerationCalls) <= 1
    /\ pc \in {"in_engine", "finish", "save"} => Cardinality(GenerationCalls) = 1
    /\ (Exited /\ exit_path \in {"generation", "save", "success"}) =>
          Cardinality(GenerationCalls) = 1
    /\ \A i \in GenerationCalls : engine[i].fn = ExpectedEntryPoint(opt)
    /\ (pc # "start" /\ opt.input_path # NULL) => opened \subseteq {opt.input_path}

C7_Witness ==
    /\ Exited
    /\ exit_path = "success"
    /\ opt.input_path # NULL
    /\ opt.embeddings_path # NULL
    /\ opt.noise_path # NULL
    /\ \E i \in GenerationCalls : engine[i].fn = "flux_img2img"
    /\ opened = {opt.input_path}

\* ------------------------------------------------------------------------
\* C8: in a run with a negative requested seed, once the seed is resolved
\* one non-negative seed is reported, and every seed handed to the engine,
\* by flux_set_seed and in the seed field of the parameters of the
\* generation call, is that reported value.
\* ------------------------------------------------------------------------
C8_RandomSeedExplicit ==
    (opt.seed < 0 /\ PastSeed) =>
        /\ seed_out = <<actual_seed>>
        /\ actual_seed >= 0
        /\ Cardinality(CallsOf("flux_set_seed")) = 1
        /\ \A i \in CallsOf("flux_set_seed") \cup GenerationCalls :
              engine[i].params.seed = actual_seed

\* ------------------------------------------------------------------------
\* C9: in a run with a requested seed >= 0, once the seed is resolved the
\* seed reported and every seed handed to the engine equal the requested
\* seed, whatever the clock reads, verbose or not, in every mode.
\* ------------------------------------------------------------------------
C9_SeedDeterminism ==
    (opt.seed >= 0 /\ PastSeed) =>
        /\ actual_seed = opt.seed
        /\ seed_out = <<opt.seed>>
        /\ Cardinality(CallsOf("flux_set_seed")) = 1
        /\ \A i \in CallsOf("flux_set_seed") \cup GenerationCalls :
              engine[i].params.seed = opt.seed

C9_Witness ==
    /\ Exited
    /\ exit_path = "success"
    /\ opt.seed = 0
    /\ seed_out = <<0>>
    /\ \E i \in GenerationCalls : engine[i].params.seed = 0

\* ------------------------------------------------------------------------
\* C10: the width passed to flux_img2img is the input image's width unless
\* -W was given, and then the width given, also when it equals the default;
\* likewise the height and -H.
\* ------------------------------------------------------------------------
C10_Img2ImgDimensions ==
    \A i \in CallsOf("flux_img2img") :
        /\ input # NoImage
        /\ engine[i].params.width =
              IF opt.width_set THEN opt.width ELSE input.width
        /\ engine[i].params.height =
              IF opt.height_set THEN opt.height ELSE input.height

C10_Witness ==
    /\ CallsOf("flux_img2img") # {}
    /\ opt.width_set
    /\ opt.width = DEFAULT_WIDTH
    /\ ~opt.height_set
    /\ input = [width |-> 300, height |-> 32]
    /\ \A i \in CallsOf("flux_img2img") :
          engine[i].params.width = DEFAULT_WIDTH /\ engine[i].params.height = 32

\* ------------------------------------------------------------------------
\* C11: main() returns 0 only after -h or -V, or after a generation call
\* returned an image and flux_image_save succeeded; it returns 1 after every
\* validation, load, file, generation or save failure.  Standard output
\* holds the output path, once, iff the run succeeded and was not verbose,
\* and is empty in every other run and at every earlier point.
\* ------------------------------------------------------------------------
FailureExits ==
    {"usage", "no_model", "no_prompt", "no_output", "width", "height", "steps",
     "strength", "load", "input", "emb_open", "emb_read", "noise_open",
     "noise_read", "generation", "save"}

C11_ExitStatusAndStdout ==
    /\ Exited => ret \in {0, 1}
    /\ (Exited /\ ret = 0) =>
          \/ opt.stop \in {"h", "V"}
          \/ /\ exit_path = "success"
             /\ output = "image"
             /\ Cardinality(GenerationCalls) = 1
             /\ engine[Len(engine)].fn = "flux_image_save"
    /\ (Exited /\ exit_path \in FailureExits) => ret = 1
    /\ Exited => exit_path \in FailureExits \cup {"help", "version", "success"}
    /\ stdout = IF Exited /\ exit_path = "success" /\ ~opt.verbose
                   THEN <<opt.output_path>>
                   ELSE <<>>

C11_Witness ==
    /\ Exited
    /\ ret = 0
    /\ exit_path = "success"
    /\ ~opt.verbose
    /\ stdout = <<"out.png">>

\* ------------------------------------------------------------------------
\* C12: the sequence length passed with external embeddings is
\* floor(file size / (FLUX_TEXT_DIM * 4)), so exactly K for a file of
\* FLUX_TEXT_DIM * 4 * K bytes, whether or not the size is a multiple; the
\* noise count passed is floor(noise file size / 4), exactly K for 4 * K
\* bytes.
\* ------------------------------------------------------------------------
EmbeddingsCalls ==
    CallsOf("flux_generate_with_embeddings")
        \cup CallsOf("flux_generate_with_embeddings_and_noise")

C12_ShapeInference ==
    \A i \in EmbeddingsCalls :
        LET seq == engine[i].text_seq
            n == engine[i].noise_size
        IN /\ seq >= 0
           /\ seq * (FLUX_TEXT_DIM * 4) <= file_size
           /\ file_size < (seq + 1) * (FLUX_TEXT_DIM * 4)
           /\ \A K \in 0..3 : file_size = FLUX_TEXT_DIM * 4 * K => seq = K
           /\ engine[i].noise =>
                 /\ n >= 0
                 /\ n * 4 <= noise_file_size
                 /\ noise_file_size < (n + 1) * 4
                 /\ \A K \in 0..2 : noise_file_size = 4 * K => n = K

C12_Witness ==
    /\ file_size = FLUX_TEXT_DIM * 4 * 3 + 4
    /\ noise_file_size = 7
    /\ \E i \in EmbeddingsCalls :
          /\ engine[i].noise
          /\ engine[i].text_seq = 3
          /\ engine[i].noise_size = 1

\* ------------------------------------------------------------------------
\* C13: the parameters passed to every generation call satisfy
\* 64 <= width, height <= 4096, 1 <= num_steps <= 100 and
\* 0.0 <= strength <= 1.0, in image-to-image mode too.
\* ------------------------------------------------------------------------
C13_RangesAtCall ==
    \A i \in GenerationCalls :
        /\ engine[i].params.width \in 64..4096
        /\ engine[i].params.height \in 64..4096
        /\ engine[i].params.num_steps \in 1..100
        /\ engine[i].params.strength \in 0..100

\* ------------------------------------------------------------------------
\* C14: when a verbose run that armed the reporter terminates, on whatever
\* exit path, both engine callbacks are NULL and cli_current_step is 0.
\* ------------------------------------------------------------------------
C14_DisarmedAtExit ==
    (Exited /\ opt.verbose /\ acq["ctx"] = 1) =>
        /\ flux_step_callback = NULL
        /\ flux_substep_callback = NULL
        /\ cli_current_step = 0

\* ------------------------------------------------------------------------
\* C15: the seed is reported at most once and handed to flux_set_seed at
\* most once; once an input file has been opened or a generation call made
\* both have happened exactly once, in verbose and non-verbose runs alike,
\* and flux_set_seed precedes the generation call.
\* ------------------------------------------------------------------------
C15_SeedOrdering ==
    /\ Len(seed_out) <= 1
    /\ Cardinality(CallsOf("flux_set_seed")) <= 1
    /\ (opened # {} \/ GenerationCalls # {} \/ pc = "select") =>
          /\ Len(seed_out) = 1
          /\ Cardinality(CallsOf("flux_set_seed")) = 1
          /\ seed_out[1] = actual_seed
    /\ \A i \in GenerationCalls : \E j \in CallsOf("flux_set_seed") : j < i

C15_Witness ==
    /\ pc = "in_engine"
    /\ ~opt.verbose
    /\ opened = {"emb.bin", "noise.bin"}
    /\ Len(seed_out) = 1
    /\ engine[2].fn = "flux_set_seed"
    /\ engine[3].fn = "flux_generate_with_embeddings_and_noise"

\* ------------------------------------------------------------------------
\* C16: a run in which the embeddings file or the noise file cannot be
\* opened or is read short makes no generation call, exits with status 1 and
\* has released the model context and every buffer and file handle it
\* acquired; a generation call with embeddings is made only after fread
\* returned the whole embeddings file and, with noise, the whole noise file.
\* ------------------------------------------------------------------------
TensorFailureExits == {"emb_open", "emb_read", "noise_open", "noise_read"}

C16_NoPartialBuffers ==
    /\ (fread_ret.emb >= 0 /\ fread_ret.emb # file_size) =>
          Exited /\ exit_path = "emb_read"
    /\ (fread_ret.noise >= 0 /\ fread_ret.noise # noise_file_size) =>
          Exited /\ exit_path = "noise_read"
    /\ (Exited /\ exit_path \in TensorFailureExits) =>
          /\ GenerationCalls = {}
          /\ ret = 1
          /\ acq["ctx"] = 1
          /\ \A r \in Resources : rel[r] = acq[r]
    /\ \A i \in EmbeddingsCalls :
          /\ file_size >= 0
          /\ fread_ret.emb = file_size
          /\ rel["emb_file"] = 1
          /\ opt.noise_path # NULL =>
                /\ engine[i].noise
                /\ noise_file_size >= 0
                /\ fread_ret.noise = noise_file_size
                /\ rel["noise_file"] = 1

C16_Witness ==
    /\ Exited
    /\ exit_path = "noise_read"
    /\ fread_ret.emb = file_size
    /\ noise_file_size = 8
    /\ fread_ret.noise = 7

\* ------------------------------------------------------------------------
\* C17: the prompt passed to flux_generate is present and not empty, and a
\* run with an empty prompt and neither input image nor embeddings never
\* gets past validation.
\* ------------------------------------------------------------------------
C17_PromptOnlyNonEmpty ==
    /\ \A i \in CallsOf("flux_generate") : engine[i].str \notin {NULL, ""}
    /\ (pc # "start" /\ opt.prompt = "" /\ opt.input_path = NULL
            /\ opt.embeddings_path = NULL) =>
          /\ pc \in {"validate", "exit"}
          /\ NothingAttempted

\* ------------------------------------------------------------------------
\* C18: the prompt passed to flux_img2img is never NULL.
\* ------------------------------------------------------------------------
C18_Img2ImgPrompt ==
    \A i \in CallsOf("flux_img2img") : engine[i].str # NULL

\* ------------------------------------------------------------------------
\* C19: in a non-verbose run the engine callbacks stay NULL, and after
\* cli_finish_progress they are NULL again; a progress event the engine
\* emits while they are NULL writes nothing, leaves cli_current_step alone
\* and does not change where main() is or what it returns.
\* ------------------------------------------------------------------------
Unarmed == flux_step_callback = NULL /\ flux_substep_callback = NULL

C19_CallbacksNull ==
    /\ (pc # "start" /\ ~opt.verbose) => Unarmed /\ term = <<>> /\ cli_current_step = 0
    /\ (pc = "save" \/ (Exited /\ exit_path \in {"generation", "save", "success"})) =>
          Unarmed /\ cli_current_step = 0

C19_EventDropped ==
    (Len(evlog') = Len(evlog) + 1 /\ (~opt.verbose \/ pc = "save")) =>
        /\ term' = term
        /\ cli_current_step' = cli_current_step
        /\ pc' = pc
        /\ ret' = ret
        /\ exit_path' = exit_path

C19_UnarmedEventsDropped == []C19_CallbacksNull /\ [][C19_EventDropped]_vars

C19_Witness ==
    /\ Exited
    /\ exit_path = "success"
    /\ opt.verbose
    /\ Len(evlog) = 2
    /\ evlog[1].ev = "step"
    /\ evlog[2].ev = "substep"
    /\ term = <<Header(1, DEFAULT_STEPS), Newline>>

====
